---- MODULE Spec2Model ----
(***************************************************************************)
(* A model of src/trade/trader_fameex.js: the FameEX trader adapter.       *)
(*                                                                         *)
(* Part I   JavaScript values and strings, formatPairName.                 *)
(* Part II  The metadata cache: getCurrencies / getMarkets, their promise  *)
(*          chains (then / catch / finally) run as jobs of the microtask   *)
(*          queue, upstream completions and callers as macrotasks.         *)
(* Part III getBalances, getOpenOrdersPage, getOpenOrders.                 *)
(* Part IV  formatPairName applied to the spellings of a pair.             *)
(***************************************************************************)
EXTENDS Integers, Sequences, FiniteSets, TLC

VARIABLES
    gettingCurrencies,   \* module.exports.gettingCurrencies
    exchangeCurrencies,  \* module.exports.exchangeCurrencies
    gettingMarkets,      \* module.exports.gettingMarkets
    exchangeMarkets,     \* module.exports.exchangeMarkets
    refresh,             \* the promise chains built by lines 75-134 / 150-193
    nrefresh,            \* how many of them were built so far
    microtasks,          \* the job queue of the event loop (FIFO)
    calls,               \* invocations of the ExchangeApiClient, per method
    lastCall,            \* the latest getCurrencies / getMarkets call and what it returned
    lastResolved,        \* the value the latest continuation received
    op,                  \* the public operation of Part III that was called last
    outcome,             \* the promise that call returned
    nonzero,             \* getBalances: its argument
    coinPair,            \* getOpenOrders: const coinPair
    limit,               \* getOpenOrders: const limit
    pageNum,             \* getOpenOrders: let pageNum
    allOrders,           \* getOpenOrders: const allOrders
    page,                \* the getOpenOrdersPage call in progress (or the last one);
                         \* upstreamFailed: one of its upstream calls was rejected,
                         \* noTrade: one of its lookups answered without a trade
    pageCalls,           \* the page numbers getOpenOrdersPage was called with
    pageResults,         \* what the page calls of the running getOpenOrders returned
    rawPair,             \* formatPairName: its argument
    canonical,           \* formatPairName(rawPair)
    respelledFrom,       \* formatPairName of the spelling rawPair was respelled from
    renormalized         \* formatPairName(canonical.pairReadable)

cacheVars == <<gettingCurrencies, exchangeCurrencies, gettingMarkets, exchangeMarkets,
               refresh, nrefresh, microtasks, calls, lastCall, lastResolved>>

orderVars == <<op, outcome, nonzero, coinPair, limit, pageNum, allOrders, page,
               pageCalls, pageResults>>

pairVars == <<rawPair, canonical, respelledFrom, renormalized>>

vars == <<gettingCurrencies, exchangeCurrencies, gettingMarkets, exchangeMarkets,
          refresh, nrefresh, microtasks, calls, lastCall, lastResolved,
          op, outcome, nonzero, coinPair, limit, pageNum, allOrders, page,
          pageCalls, pageResults, rawPair, canonical, respelledFrom, renormalized>>

(***************************************************************************)
(* Bounds.                                                                 *)
(***************************************************************************)
MaxRefresh == 3     \* refreshes started per run (both catalogs together)
MaxLen == 5         \* the longest pair string formatPairName is applied to

(***************************************************************************)
(* Part I.  JavaScript values.  Every value is a record tagged by t, so    *)
(* that values of different kinds can be compared.  A string is a          *)
(* sequence of one-character strings.                                      *)
(***************************************************************************)
Undefined == [t |-> "undefined"]
Str(s) == [t |-> "str", s |-> s]
ObjMap(m) == [t |-> "map", m |-> m]
Entry(e) == [t |-> "entry", e |-> e]
PromiseOf(r) == [t |-> "promise", rid |-> r]

\* `${x}` and property keys: undefined turns into the string "undefined"
UndefinedStr == <<"u", "n", "d", "e", "f", "i", "n", "e", "d">>

JsString(v) == IF v.t = "undefined" THEN UndefinedStr ELSE v.s

\* obj[key]: the property if the object has it, undefined otherwise
GetProp(m, key) == IF JsString(key) \in DOMAIN m THEN Entry(m[JsString(key)]) ELSE Undefined

UpperChar(c) ==
    CASE c = "b" -> "B"
      [] c = "u" -> "U"
      [] c = "x" -> "X"
      [] c = "n" -> "N"
      [] c = "d" -> "D"
      [] c = "e" -> "E"
      [] c = "f" -> "F"
      [] c = "i" -> "I"
      [] OTHER -> c

toUpperCase(s) == [i \in 1..Len(s) |-> UpperChar(s[i])]

IsSeparator(c) == c \in {"-", "_", "/"}

\* String.prototype.split(/[\-\_\/]/): the pieces between separators, empty pieces kept
RECURSIVE split(_)
split(s) ==
    IF s = <<>> THEN << <<>> >>
    ELSE LET rest == split(Tail(s))
         IN  IF IsSeparator(Head(s))
             THEN << <<>> >> \o rest
             ELSE << <<Head(s)>> \o Head(rest) >> \o Tail(rest)

Threw == [t |-> "throw"]

\* formatPairName without line 446: the pieces keep the case they were written in
formatPairNameKeepingCase(pair) ==
    IF pair.t = "undefined" THEN Threw
    ELSE LET pieces == split(pair.s)
             coin1 == Str(pieces[1])
             coin2 == IF Len(pieces) >= 2 THEN Str(pieces[2]) ELSE Undefined
         IN  [t |-> "pair",
              pair |-> JsString(coin1) \o <<"/">> \o JsString(coin2),
              pairReadable |-> JsString(coin1) \o <<"/">> \o JsString(coin2),
              pairPlain |-> JsString(coin1) \o <<"_">> \o JsString(coin2),
              coin1 |-> coin1,
              coin2 |-> coin2]

\* formatPairName (lines 445-456).  pair?.toUpperCase() leaves undefined as it is and
\* pair.split then throws a TypeError; [coin1, coin2] takes the first two pieces,
\* a missing one is undefined and is printed as "undefined" by the template strings.
formatPairName(pair) ==
    IF pair.t = "undefined" THEN Threw
    ELSE LET pieces == split(toUpperCase(pair.s))
             coin1 == Str(pieces[1])
             coin2 == IF Len(pieces) >= 2 THEN Str(pieces[2]) ELSE Undefined
         IN  [t |-> "pair",
              pair |-> JsString(coin1) \o <<"/">> \o JsString(coin2),
              pairReadable |-> JsString(coin1) \o <<"/">> \o JsString(coin2),
              pairPlain |-> JsString(coin1) \o <<"_">> \o JsString(coin2),
              coin1 |-> coin1,
              coin2 |-> coin2]

(***************************************************************************)
(* Part II.  The metadata cache.                                           *)
(*                                                                         *)
(* A refresh is one promise chain                                          *)
(*    new Promise(resolve => upstream.then(f).catch(g).finally(h))         *)
(* Its record holds the upstream responses (a: currencies() or markets(),  *)
(* b: currenciesWithNetwork()), whether the upstream promise is still      *)
(* pending (stage "fetching"), and the state of the returned promise.      *)
(* f, g and h run as jobs of the microtask queue, in the order the         *)
(* ECMAScript job queue gives them; resolve() queues the continuation of   *)
(* the caller who awaits the returned promise.  Upstream completions and   *)
(* outside callers are macrotasks: they run when the job queue is empty.   *)
(***************************************************************************)
Pending == [t |-> "pending"]
Rejected == [t |-> "rejected"]
Malformed == [t |-> "malformed"]
Fulfilled(v) == [t |-> "fulfilled", v |-> v]
NoResponse == [t |-> "none"]

NoCall == [fn |-> "none"]
NoRefresh == [cat |-> "none", stage |-> "idle"]
DoneRefresh == [cat |-> "none", stage |-> "done"]

Rids == 1..MaxRefresh

\* what the vendor can answer to currencies(): a rejection, a payload on which the
\* try block throws (no payload at all, an entry without name), or data listing some
\* names (lower case, as FameEX sends them; no name also stands for a payload
\* without data, which the for-in loop passes over).  ver stands for the other
\* fields of the payload: the answer to the r-th request is unlike any other
CurrencyNames == {{}, {<<"b">>}, {<<"b">>, <<"u">>}}
CurrenciesResponses(r) ==
    {Rejected, Malformed} \cup {[t |-> "data", names |-> S, ver |-> r] : S \in CurrencyNames}

\* ... to currenciesWithNetwork(): the currencies of data.list
NetworkNames == {{}, {<<"b">>}}
NetworksResponses(r) ==
    {Rejected, Malformed} \cup {[t |-> "data", names |-> S, ver |-> r] : S \in NetworkNames}

\* ... to markets(): the pair strings of data
MarketPairs == {{}, {<<"b", "_", "u">>}, {<<"b", "_", "u">>, <<"x", "-", "u">>}}
MarketsResponses(r) ==
    {Rejected, Malformed} \cup {[t |-> "data", pairs |-> S, ver |-> r] : S \in MarketPairs}

\* the arguments callers pass
CoinArgs == {Undefined, Str(<<"B">>), Str(<<"b">>), Str(<<"X">>)}
PairArgs == {Undefined, Str(<<"b", "-", "u">>), Str(<<"B", "/", "U">>), Str(<<"x", "_", "b">>)}

InFlight(cat) == {r \in Rids : refresh[r].cat = cat /\ refresh[r].stage = "fetching"}

NoValue == [t |-> "none"]

\* what is seen of one call: the arguments, the state it was made in (calls: the
\* invocations of the ExchangeApiClient before it) and what came back
Observed(fn, via, arg, forceUpdate, ret) ==
    [fn |-> fn, via |-> via, arg |-> arg, forceUpdate |-> forceUpdate,
     getting |-> IF fn = "getCurrencies" THEN gettingCurrencies ELSE gettingMarkets,
     snapshot |-> IF fn = "getCurrencies" THEN exchangeCurrencies ELSE exchangeMarkets,
     inflight |-> IF fn = "getCurrencies" THEN Cardinality(InFlight("currencies"))
                  ELSE Cardinality(InFlight("markets")),
     calls |-> calls, ret |-> ret]

\* new Promise((resolve) => { ... }): the chain of lines 75-134 (150-193) is built and
\* the upstream calls are issued
NewRefresh(cat, awaited) ==
    [cat |-> cat, stage |-> "fetching", a |-> Pending,
     b |-> IF cat = "currencies" THEN Pending ELSE NoResponse,
     promise |-> Pending, awaited |-> awaited]

\* getCurrencies with line 71 testing the snapshot alone: forceUpdate is ignored
getCurrenciesIgnoringForce(via, coin, forceUpdate) ==
    IF gettingCurrencies
    THEN /\ lastCall' = Observed("getCurrencies", via, coin, forceUpdate, Undefined)
         /\ UNCHANGED <<gettingCurrencies, refresh, nrefresh, calls>>
    ELSE IF exchangeCurrencies.t = "map"
    THEN /\ lastCall' = Observed("getCurrencies", via, coin, forceUpdate,
                                 GetProp(exchangeCurrencies.m, coin))
         /\ UNCHANGED <<gettingCurrencies, refresh, nrefresh, calls>>
    ELSE /\ nrefresh < MaxRefresh
         /\ gettingCurrencies' = TRUE
         /\ calls' = [calls EXCEPT !.currencies = @ + 1, !.currenciesWithNetwork = @ + 1]
         /\ nrefresh' = nrefresh + 1
         /\ refresh' = [refresh EXCEPT ![nrefresh + 1] = NewRefresh("currencies", TRUE)]
         /\ lastCall' = Observed("getCurrencies", via, coin, forceUpdate,
                                 PromiseOf(nrefresh + 1))

\* getCurrencies(coin, forceUpdate) up to its return (lines 69-79)
getCurrencies(via, coin, forceUpdate) ==
    IF gettingCurrencies
    THEN /\ lastCall' = Observed("getCurrencies", via, coin, forceUpdate, Undefined)
         /\ UNCHANGED <<gettingCurrencies, refresh, nrefresh, calls>>
    ELSE IF exchangeCurrencies.t = "map" /\ ~forceUpdate
    THEN /\ lastCall' = Observed("getCurrencies", via, coin, forceUpdate,
                                 GetProp(exchangeCurrencies.m, coin))
         /\ UNCHANGED <<gettingCurrencies, refresh, nrefresh, calls>>
    ELSE /\ nrefresh < MaxRefresh
         /\ gettingCurrencies' = TRUE
         /\ calls' = [calls EXCEPT !.currencies = @ + 1, !.currenciesWithNetwork = @ + 1]
         /\ nrefresh' = nrefresh + 1
         /\ refresh' = [refresh EXCEPT ![nrefresh + 1] = NewRefresh("currencies", TRUE)]
         /\ lastCall' = Observed("getCurrencies", via, coin, forceUpdate,
                                 PromiseOf(nrefresh + 1))

\* the key of line 146: pair ? formatPairName(pair).pairReadable : pair
\* (the empty string is falsy and is passed on as it is)
MarketKey(pair) ==
    IF pair.t = "undefined" \/ pair.s = <<>> THEN pair
    ELSE Str(formatPairName(pair).pairReadable)

\* getMarkets fetching again when it is called without a pair although a snapshot
\* exists
getMarketsRefetching(via, pair) ==
    IF gettingMarkets
    THEN /\ lastCall' = Observed("getMarkets", via, pair, FALSE, Undefined)
         /\ UNCHANGED <<gettingMarkets, refresh, nrefresh, calls>>
    ELSE IF exchangeMarkets.t = "map" /\ pair # Undefined
    THEN /\ lastCall' = Observed("getMarkets", via, pair, FALSE,
                                 GetProp(exchangeMarkets.m, MarketKey(pair)))
         /\ UNCHANGED <<gettingMarkets, refresh, nrefresh, calls>>
    ELSE /\ nrefresh < MaxRefresh
         /\ gettingMarkets' = TRUE
         /\ calls' = [calls EXCEPT !.markets = @ + 1]
         /\ nrefresh' = nrefresh + 1
         /\ refresh' = [refresh EXCEPT ![nrefresh + 1] = NewRefresh("markets", TRUE)]
         /\ lastCall' = Observed("getMarkets", via, pair, FALSE,
                                 PromiseOf(nrefresh + 1))

\* getMarkets(pair) up to its return (lines 142-151)
getMarkets(via, pair) ==
    IF gettingMarkets
    THEN /\ lastCall' = Observed("getMarkets", via, pair, FALSE, Undefined)
         /\ UNCHANGED <<gettingMarkets, refresh, nrefresh, calls>>
    ELSE IF exchangeMarkets.t = "map"
    THEN /\ lastCall' = Observed("getMarkets", via, pair, FALSE,
                                 GetProp(exchangeMarkets.m, MarketKey(pair)))
         /\ UNCHANGED <<gettingMarkets, refresh, nrefresh, calls>>
    ELSE /\ nrefresh < MaxRefresh
         /\ gettingMarkets' = TRUE
         /\ calls' = [calls EXCEPT !.markets = @ + 1]
         /\ nrefresh' = nrefresh + 1
         /\ refresh' = [refresh EXCEPT ![nrefresh + 1] = NewRefresh("markets", TRUE)]
         /\ lastCall' = Observed("getMarkets", via, pair, FALSE,
                                 PromiseOf(nrefresh + 1))

\* the try block of lines 81-115: the merged result, or the TypeError of a payload
\* that has not the expected shape
currenciesResult(a, b) ==
    IF a.t # "data" \/ b.t # "data" THEN Threw
    ELSE LET networksByCurrency == {toUpperCase(n) : n \in b.names}
             symbols == {toUpperCase(n) : n \in a.names}
         IN  ObjMap([sym \in symbols |->
                     [symbol |-> sym, name |-> sym, minWithdraw |-> a.ver,
                      networks |-> IF sym \in networksByCurrency
                                   THEN [t |-> "networks", ver |-> b.ver]
                                   ELSE Undefined]])

\* the try block of lines 152-174 (two pairs with one readable name: the entries are
\* built from the same answer and the later one replaces the earlier)
marketsResult(a) ==
    IF a.t # "data" THEN Threw
    ELSE LET readable(p) == formatPairName(Str(p)).pairReadable
         IN  ObjMap([key \in {readable(p) : p \in a.pairs} |->
                     LET p == CHOOSE q \in a.pairs : readable(q) = key
                         pair == formatPairName(Str(p))
                     IN  [pairReadable |-> pair.pairReadable, pairPlain |-> pair.pairPlain,
                          coin1 |-> pair.coin1, coin2 |-> pair.coin2,
                          coin1Decimals |-> a.ver]])

\* resolve(value) of the returned promise: the first call settles it and queues the
\* continuation of the caller that awaits it, later calls do nothing
Resolve(rec, value) ==
    IF rec.promise = Pending THEN [rec EXCEPT !.promise = Fulfilled(value)] ELSE rec

Continuations(r) ==
    IF refresh[r].promise = Pending /\ refresh[r].awaited
    THEN <<[job |-> "cont", rid |-> r, rejected |-> FALSE]>>
    ELSE <<>>

Job(kind, r, rejected) == [job |-> kind, rid |-> r, rejected |-> rejected]

\* the upstream promise of a refresh (Promise.all of lines 76-79, markets() of line
\* 151): rejected with the first rejection, fulfilled when every call is
UpstreamRejected(rec) == rec.a = Rejected \/ rec.b = Rejected
UpstreamSettled(rec) == UpstreamRejected(rec) \/ (rec.a # Pending /\ rec.b # Pending)

\* one upstream response arrives; when it settles the upstream promise, the reaction
\* of .then() is queued
Settled(r, rec) ==
    /\ refresh' = [refresh EXCEPT ![r] =
                     IF UpstreamSettled(rec) THEN [rec EXCEPT !.stage = "settled"] ELSE rec]
    /\ microtasks' = IF UpstreamSettled(rec)
                     THEN <<Job("then", r, UpstreamRejected(rec))>>
                     ELSE <<>>
    /\ lastCall' = NoCall
    /\ lastResolved' = NoValue
    /\ UNCHANGED <<gettingCurrencies, exchangeCurrencies, gettingMarkets, exchangeMarkets,
                   nrefresh, calls>>

\* fameEXApiClient.currencies() settles
SettleCurrencies ==
    /\ UNCHANGED <<orderVars, pairVars>>
    /\ microtasks = <<>>
    /\ \E r \in InFlight("currencies") :
         /\ refresh[r].a = Pending
         /\ \E resp \in CurrenciesResponses(r) :
              Settled(r, [refresh[r] EXCEPT !.a = resp])

\* fameEXApiClient.currenciesWithNetwork() settles
SettleCurrenciesWithNetwork ==
    /\ UNCHANGED <<orderVars, pairVars>>
    /\ microtasks = <<>>
    /\ \E r \in InFlight("currencies") :
         /\ refresh[r].b = Pending
         /\ \E resp \in NetworksResponses(r) :
              Settled(r, [refresh[r] EXCEPT !.b = resp])

\* fameEXApiClient.markets() settles
SettleMarkets ==
    /\ UNCHANGED <<orderVars, pairVars>>
    /\ microtasks = <<>>
    /\ \E r \in InFlight("markets") :
         \E resp \in MarketsResponses(r) :
            Settled(r, [refresh[r] EXCEPT !.a = resp])

\* the callback of .then() of getCurrencies writing its entries into the snapshot
\* that exists (Object.assign) instead of replacing it
ThenCurrenciesMerging(r) ==
    LET result == currenciesResult(refresh[r].a, refresh[r].b)
    IN  IF result = Threw
        THEN /\ refresh' = [refresh EXCEPT ![r] = Resolve(@, Undefined)]
             /\ UNCHANGED <<gettingCurrencies, exchangeCurrencies>>
        ELSE /\ exchangeCurrencies' =
                  IF Cardinality(DOMAIN result.m) = 0 THEN exchangeCurrencies
                  ELSE IF exchangeCurrencies.t # "map" THEN result
                  ELSE ObjMap([sym \in DOMAIN exchangeCurrencies.m \cup DOMAIN result.m |->
                                 IF sym \in DOMAIN result.m THEN result.m[sym]
                                 ELSE exchangeCurrencies.m[sym]])
             /\ gettingCurrencies' = FALSE
             /\ refresh' = [refresh EXCEPT ![r] = Resolve(@, result)]

\* the callback of .then() of getCurrencies without the test of line 117: the
\* result is stored also when it is empty
ThenCurrenciesStoringEmpty(r) ==
    LET result == currenciesResult(refresh[r].a, refresh[r].b)
    IN  IF result = Threw
        THEN /\ refresh' = [refresh EXCEPT ![r] = Resolve(@, Undefined)]
             /\ UNCHANGED <<gettingCurrencies, exchangeCurrencies>>
        ELSE /\ exchangeCurrencies' = result
             /\ gettingCurrencies' = FALSE
             /\ refresh' = [refresh EXCEPT ![r] = Resolve(@, result)]

\* the callback of .then() of getCurrencies (lines 80-128)
ThenCurrencies(r) ==
    LET result == currenciesResult(refresh[r].a, refresh[r].b)
    IN  IF result = Threw
        THEN \* catch (error) of line 124
             /\ refresh' = [refresh EXCEPT ![r] = Resolve(@, Undefined)]
             /\ UNCHANGED <<gettingCurrencies, exchangeCurrencies>>
        ELSE /\ exchangeCurrencies' =
                  IF Cardinality(DOMAIN result.m) > 0 THEN result ELSE exchangeCurrencies
             /\ gettingCurrencies' = FALSE
             /\ refresh' = [refresh EXCEPT ![r] = Resolve(@, result)]

\* the callback of .then() of getMarkets (lines 151-187)
ThenMarkets(r) ==
    LET result == marketsResult(refresh[r].a)
    IN  IF result = Threw
        THEN \* catch (error) of line 183
             /\ refresh' = [refresh EXCEPT ![r] = Resolve(@, Undefined)]
             /\ UNCHANGED <<gettingMarkets, exchangeMarkets>>
        ELSE /\ exchangeMarkets' =
                  IF Cardinality(DOMAIN result.m) > 0 THEN result ELSE exchangeMarkets
             /\ gettingMarkets' = FALSE
             /\ refresh' = [refresh EXCEPT ![r] = Resolve(@, result)]

\* the reaction of .then(): the callback when the upstream promise is fulfilled; a
\* rejection is passed on to .catch()
RunThen ==
    /\ UNCHANGED <<orderVars, pairVars>>
    /\ microtasks # <<>>
    /\ Head(microtasks).job = "then"
    /\ LET r == Head(microtasks).rid
       IN  IF Head(microtasks).rejected
           THEN /\ microtasks' = Tail(microtasks) \o <<Job("catch", r, TRUE)>>
                /\ UNCHANGED <<gettingCurrencies, exchangeCurrencies, gettingMarkets,
                               exchangeMarkets, refresh>>
           ELSE /\ microtasks' = Tail(microtasks) \o Continuations(r)
                                    \o <<Job("catch", r, FALSE)>>
                /\ IF refresh[r].cat = "currencies"
                   THEN ThenCurrencies(r) /\ UNCHANGED <<gettingMarkets, exchangeMarkets>>
                   ELSE ThenMarkets(r) /\ UNCHANGED <<gettingCurrencies, exchangeCurrencies>>
    /\ lastCall' = NoCall
    /\ lastResolved' = NoValue
    /\ UNCHANGED <<nrefresh, calls>>

\* the callback of .catch() without its resolve(undefined): it only logs
CatchHandlerLogsOnly(r) == UNCHANGED refresh

\* the callback of .catch() (lines 128-131, 187-190)
CatchHandler(r) == refresh' = [refresh EXCEPT ![r] = Resolve(@, Undefined)]

\* the reaction of .catch(): the callback on a rejection; a fulfilment is passed on
RunCatch ==
    /\ UNCHANGED <<orderVars, pairVars>>
    /\ microtasks # <<>>
    /\ Head(microtasks).job = "catch"
    /\ LET r == Head(microtasks).rid
       IN  IF Head(microtasks).rejected
           THEN /\ CatchHandler(r)
                /\ microtasks' = Tail(microtasks) \o Continuations(r)
                                    \o <<Job("finally", r, FALSE)>>
           ELSE /\ microtasks' = Tail(microtasks) \o <<Job("finally", r, FALSE)>>
                /\ UNCHANGED refresh
    /\ lastCall' = NoCall
    /\ lastResolved' = NoValue
    /\ UNCHANGED <<gettingCurrencies, exchangeCurrencies, gettingMarkets, exchangeMarkets,
                   nrefresh, calls>>

\* a chain without .finally(): the flag is cleared by line 122 (181) alone
FinallyHandlerSkipped(r) == UNCHANGED <<gettingCurrencies, gettingMarkets>>

\* the callback of .finally() (lines 131-133, 190-192); the chain is finished
FinallyHandler(r) ==
    IF refresh[r].cat = "currencies"
    THEN gettingCurrencies' = FALSE /\ UNCHANGED gettingMarkets
    ELSE gettingMarkets' = FALSE /\ UNCHANGED gettingCurrencies

RunFinally ==
    /\ UNCHANGED <<orderVars, pairVars>>
    /\ microtasks # <<>>
    /\ Head(microtasks).job = "finally"
    /\ FinallyHandler(Head(microtasks).rid)
    /\ refresh' = [refresh EXCEPT ![Head(microtasks).rid] = DoneRefresh]
    /\ microtasks' = Tail(microtasks)
    /\ lastCall' = NoCall
    /\ lastResolved' = NoValue
    /\ UNCHANGED <<exchangeCurrencies, exchangeMarkets, nrefresh, calls>>

\* the continuation of a caller that awaits the promise of a refresh: it receives the
\* value and may call the cache again at once
RunContinuation ==
    /\ UNCHANGED <<orderVars, pairVars>>
    /\ microtasks # <<>>
    /\ Head(microtasks).job = "cont"
    /\ microtasks' = Tail(microtasks)
    /\ lastResolved' = refresh[Head(microtasks).rid].promise
    /\ UNCHANGED <<exchangeCurrencies, exchangeMarkets>>
    /\ \/ /\ lastCall' = NoCall
          /\ UNCHANGED <<gettingCurrencies, gettingMarkets, refresh, nrefresh, calls>>
       \/ /\ \E coin \in CoinArgs, forceUpdate \in BOOLEAN :
                getCurrencies("getCurrencies", coin, forceUpdate)
          /\ UNCHANGED gettingMarkets
       \/ /\ \E pair \in PairArgs : getMarkets("getMarkets", pair)
          /\ UNCHANGED gettingCurrencies

\* a caller outside any promise reaction (a timer, a command, another module)
CallGetCurrencies ==
    /\ UNCHANGED <<orderVars, pairVars>>
    /\ microtasks = <<>>
    /\ \E coin \in CoinArgs, forceUpdate \in BOOLEAN :
          getCurrencies("getCurrencies", coin, forceUpdate)
    /\ lastResolved' = NoValue
    /\ UNCHANGED <<exchangeCurrencies, gettingMarkets, exchangeMarkets, microtasks>>

\* currencyInfo(coin) (lines 230-232)
CallCurrencyInfo ==
    /\ UNCHANGED <<orderVars, pairVars>>
    /\ microtasks = <<>>
    /\ \E coin \in CoinArgs : getCurrencies("currencyInfo", coin, FALSE)
    /\ lastResolved' = NoValue
    /\ UNCHANGED <<exchangeCurrencies, gettingMarkets, exchangeMarkets, microtasks>>

CallGetMarkets ==
    /\ UNCHANGED <<orderVars, pairVars>>
    /\ microtasks = <<>>
    /\ \E pair \in PairArgs : getMarkets("getMarkets", pair)
    /\ lastResolved' = NoValue
    /\ UNCHANGED <<exchangeMarkets, gettingCurrencies, exchangeCurrencies, microtasks>>

\* marketInfo(pair) (lines 221-223)
CallMarketInfo ==
    /\ UNCHANGED <<orderVars, pairVars>>
    /\ microtasks = <<>>
    /\ \E pair \in PairArgs : getMarkets("marketInfo", pair)
    /\ lastResolved' = NoValue
    /\ UNCHANGED <<exchangeMarkets, gettingCurrencies, exchangeCurrencies, microtasks>>

(***************************************************************************)
(* Part III.  getBalances, getOpenOrdersPage, getOpenOrders.               *)
(*                                                                         *)
(* One public operation runs at a time (they share no state).  Each        *)
(* upstream response is a step; the step runs the operation up to its next *)
(* await.  outcome is the promise the operation returned: pending,         *)
(* fulfilled with a value, or rejected.                                    *)
(***************************************************************************)
MaxTotal == 2      \* the largest total the vendor reports
MaxPage == 3       \* page calls of one getOpenOrders that are followed

Arr(items) == [t |-> "array", items |-> items]
Num(n) == [t |-> "num", n |-> n]

orderStates ==
    [new |-> {1, 2}, partiallyFilled |-> 3, filled |-> 4, cancelled |-> {5, 6},
     uncompleted |-> 7, completedOrCancelled |-> 9]

orderSides == [buy |-> 1, sell |-> 2]

\* formatOrderStatus (lines 463-478)
formatOrderStatus(orderState) ==
    IF orderState \in orderStates.new THEN "new"
    ELSE IF orderState = orderStates.partiallyFilled THEN "part_filled"
    ELSE IF orderState = orderStates.filled THEN "filled"
    ELSE IF orderState \in orderStates.cancelled THEN "cancelled"
    ELSE "unknown"

\* formatOrderType (lines 485-487) over orderTypesMap
formatOrderType(orderType) ==
    CASE orderType = 1 -> "limit"
      [] orderType = 2 -> "market"
      [] orderType = 3 -> "take_profit_and_stop_loss"
      [] orderType = 4 -> "tracking_order"
      [] orderType = 5 -> "maker_only"
      [] OTHER -> "unknown"

\* the four listing queries of lines 307-344, in the order of the array
Queries == 1..4
QuerySide(q) == IF q \in {1, 3} THEN orderSides.buy ELSE orderSides.sell
QueryState(q) == IF q \in {1, 2} THEN orderStates.uncompleted
                 ELSE orderStates.completedOrCancelled

\* what the vendor can answer to getOrders(): no answer, a payload without
\* data.orders, or a list of up to two orders of the side and bucket asked for
VendorOrder(q, k) ==
    [orderId |-> 10 * q + k, side |-> QuerySide(q), orderType |-> k,
     state |-> IF q \in {1, 2} THEN k + 1 ELSE k + 3,
     createTime |-> k, money |-> 5, filledAmount |-> IF q \in {1, 2} THEN k ELSE 5]

ListingResponses(q) ==
    {Rejected, Malformed} \cup
    {[t |-> "data", orders |-> L] :
        L \in {<<>>, <<VendorOrder(q, 1)>>, <<VendorOrder(q, 2), VendorOrder(q, 1)>>}}

\* ... to getTransactionDetails() of one order: no answer, a payload without data, no
\* trade (trades empty or missing: data.trades?.[0] is undefined for both), or the
\* trade of that order
DetailsResponses(order) ==
    {Rejected, Malformed, [t |-> "data", trades |-> <<>>],
     [t |-> "data", trades |-> <<[price |-> 100 + order.orderId]>>]}

\* ... to getTransactionDetails() of the pair: data.total (which may be missing)
TotalResponses ==
    {Rejected, Malformed, [t |-> "data", total |-> Undefined]} \cup
    {[t |-> "data", total |-> Num(n)] : n \in 0..MaxTotal}

\* ... to getBalances()
BalanceEntry(currency, available, hold) ==
    [currency |-> currency, available |-> available, hold |-> hold,
     total |-> available + hold]
Wallet(walletType, list) == [walletType |-> walletType, list |-> list]
WalletLists ==
    {Undefined,
     Arr(<<>>),
     Arr(<<BalanceEntry(Str(<<"b">>), 1, 0), BalanceEntry(Str(<<"u">>), 0, 0),
           BalanceEntry(Str(<<"x">>), 0, 2)>>),
     Arr(<<BalanceEntry(Str(<<"b">>), 1, 0), BalanceEntry(Undefined, 1, 0)>>)}
BalancesResponses ==
    {Rejected, Malformed,
     [t |-> "data", wallets |-> <<>>],
     [t |-> "data", wallets |-> <<Wallet("margin", Arr(<<>>))>>]} \cup
    {[t |-> "data", wallets |-> <<Wallet("margin", Arr(<<>>)), Wallet("spot", L)>>] :
        L \in WalletLists}

\* the pairs callers pass to getOpenOrders and getOpenOrdersPage
OrderPairArgs == {Undefined, Str(<<"b", "-", "u">>)}
FormattedPairs == {formatPairName(Str(<<"b", "-", "u">>))}

NoPage == [stage |-> "idle"]

\* getBalances (lines 260-291) once fameEXApiClient.getBalances() has settled: what
\* the returned promise becomes
getBalancesResult(balances, nz) ==
    IF balances = Rejected THEN Fulfilled(Undefined)
    ELSE IF balances.t # "data" THEN Rejected
    ELSE LET spot == SelectSeq(balances.wallets, LAMBDA w : w.walletType = "spot")
         IN  IF spot = <<>> THEN Rejected
             ELSE LET spotWallet == spot[1].list
                  IN  IF spotWallet.t # "array" THEN Fulfilled(Undefined)
                      ELSE IF \E i \in 1..Len(spotWallet.items) :
                                 spotWallet.items[i].currency.t # "str"
                      THEN Fulfilled(Undefined)
                      ELSE LET result ==
                                   [i \in 1..Len(spotWallet.items) |->
                                      [code |-> toUpperCase(spotWallet.items[i].currency.s),
                                       free |-> spotWallet.items[i].available,
                                       freezed |-> spotWallet.items[i].hold,
                                       total |-> spotWallet.items[i].total]]
                           IN  IF nz
                               THEN Fulfilled(Arr(SelectSeq(result,
                                        LAMBDA c : c.free # 0 \/ c.freezed # 0)))
                               ELSE Fulfilled(Arr(result))

\* an array filled in the order the values arrive
PromiseAllArrivalOrder(values, i, v) ==
    LET k == CHOOSE k \in DOMAIN values :
                 values[k] = Pending /\ \A j \in 1..(k - 1) : values[j] # Pending
    IN  [values EXCEPT ![k] = v]

\* Promise.all (lines 307, 365): the value of the i-th promise goes to position i of
\* the array, whenever it arrives
PromiseAllStore(values, i, v) == [values EXCEPT ![i] = v]

\* getOpenOrdersPage up to the await of line 307: the four listing queries are issued
NewPage(pair, n) ==
    [stage |-> "listing", pair |-> pair, pageNum |-> n, waiting |-> Queries,
     ordersData |-> [q \in Queries |-> Pending], orders |-> <<>>, result |-> <<>>,
     ret |-> Pending, upstreamFailed |-> FALSE, noTrade |-> FALSE]

\* const orders = [...] (lines 350-362)
PageOrders(ordersData) ==
    ordersData[1].orders \o ordersData[2].orders \o ordersData[3].orders
        \o ordersData[4].orders

\* the callback reading the price by transactionDetails?.price: no trade, no price
orderRecordPriceOptional(pair, order, details) ==
    IF details.t # "data" THEN Threw
    ELSE [orderId |-> order.orderId,
          symbol |-> pair.pairReadable,
          symbolPlain |-> pair.pairPlain,
          price |-> IF details.trades = <<>> THEN Undefined ELSE details.trades[1].price,
          side |-> IF order.side = orderSides.buy THEN "buy" ELSE "sell",
          type |-> formatOrderType(order.orderType),
          timestamp |-> order.createTime,
          amount |-> order.money,
          amountExecuted |-> order.filledAmount,
          amountLeft |-> order.filledAmount - order.money,
          status |-> formatOrderStatus(order.state)]

\* the async callback of orders.map (lines 365-387) once the lookup of the order has
\* settled: the record, or the error that rejects its promise
orderRecord(pair, order, details) ==
    IF details.t # "data" THEN Threw
    ELSE IF details.trades = <<>> THEN Threw
    ELSE [orderId |-> order.orderId,
          symbol |-> pair.pairReadable,
          symbolPlain |-> pair.pairPlain,
          price |-> details.trades[1].price,
          side |-> IF order.side = orderSides.buy THEN "buy" ELSE "sell",
          type |-> formatOrderType(order.orderType),
          timestamp |-> order.createTime,
          amount |-> order.money,
          amountExecuted |-> order.filledAmount,
          amountLeft |-> order.filledAmount - order.money,
          status |-> formatOrderStatus(order.state)]

\* the page call returns ret; after a failure neither ordersData (line 307) nor
\* result (line 365) has been assigned
PageDone(pg, ret, failed) ==
    [pg EXCEPT !.stage = "done", !.ret = ret, !.waiting = {},
               !.ordersData = IF failed /\ pg.stage = "listing"
                              THEN [q \in Queries |-> Pending] ELSE @,
               !.result = IF failed THEN <<>> ELSE @]

\* getOpenOrdersPage when listing query q settles (lines 306-365)
ListingSettled(pg, q, resp) ==
    IF resp = Rejected
    THEN \* catch (error) of line 345
         PageDone(pg, Fulfilled(Undefined), TRUE)
    ELSE LET data == PromiseAllStore(pg.ordersData, q, resp)
             waiting == pg.waiting \ {q}
         IN  IF waiting # {}
             THEN [pg EXCEPT !.ordersData = data, !.waiting = waiting]
             ELSE IF \E k \in Queries : data[k].t # "data"
             THEN \* the TypeError of lines 357-362 is outside any try
                  PageDone([pg EXCEPT !.ordersData = data], Rejected, FALSE)
             ELSE LET orders == PageOrders(data)
                  IN  IF orders = <<>>
                      THEN PageDone([pg EXCEPT !.ordersData = data],
                                    Fulfilled(Arr(<<>>)), FALSE)
                      ELSE [pg EXCEPT !.stage = "details", !.ordersData = data,
                                      !.orders = orders,
                                      !.waiting = 1..Len(orders),
                                      !.result = [i \in 1..Len(orders) |-> Pending]]

\* the lookups gathered as by Promise.allSettled, the failed ones left out
DetailsSettledSkipping(pg, i, resp) ==
    LET record == orderRecord(pg.pair, pg.orders[i], resp)
        result == IF record = Threw THEN pg.result
                  ELSE PromiseAllStore(pg.result, i, record)
        waiting == pg.waiting \ {i}
    IN  IF waiting # {}
        THEN [pg EXCEPT !.result = result, !.waiting = waiting]
        ELSE PageDone([pg EXCEPT !.result = result],
                      Fulfilled(Arr(SelectSeq(result, LAMBDA x : x # Pending))), FALSE)

\* getOpenOrdersPage when the lookup of order i settles (lines 364-393)
DetailsSettled(pg, i, resp) ==
    LET record == orderRecord(pg.pair, pg.orders[i], resp)
    IN  IF record = Threw
        THEN \* catch (error) of line 390
             PageDone(pg, Fulfilled(Undefined), TRUE)
        ELSE LET result == PromiseAllStore(pg.result, i, record)
                 waiting == pg.waiting \ {i}
             IN  IF waiting # {}
                 THEN [pg EXCEPT !.result = result, !.waiting = waiting]
                 ELSE PageDone([pg EXCEPT !.result = result], Fulfilled(Arr(result)), FALSE)

\* allOrders.length < limit (line 424): a comparison with undefined is false
LessThanLimit(n, lim) == lim.t = "num" /\ n < lim.n

\* the loop of getOpenOrders with the test allOrders.length <= limit
getOpenOrdersStepInclusive(ordersInfo, all, n, lim) ==
    IF ordersInfo.t # "array"
    THEN [returns |-> TRUE, value |-> Undefined, allOrders |-> all, pageNum |-> n]
    ELSE LET pushed == all \o ordersInfo.items
         IN  IF lim.t = "num" /\ Len(pushed) <= lim.n
             THEN [returns |-> FALSE, value |-> Undefined, allOrders |-> pushed,
                   pageNum |-> n + 1]
             ELSE [returns |-> TRUE, value |-> Arr(pushed), allOrders |-> pushed,
                   pageNum |-> n + 1]

\* the loop of getOpenOrders going on to the next page after a failed one
getOpenOrdersStepSkipping(ordersInfo, all, n, lim) ==
    LET pushed == IF ordersInfo.t = "array" THEN all \o ordersInfo.items ELSE all
    IN  IF ordersInfo.t # "array" \/ LessThanLimit(Len(pushed), lim)
        THEN [returns |-> FALSE, value |-> Undefined, allOrders |-> pushed,
              pageNum |-> n + 1]
        ELSE [returns |-> TRUE, value |-> Arr(pushed), allOrders |-> pushed,
              pageNum |-> n + 1]

\* the loop of getOpenOrders without pageNum += 1: the same page is asked for again
getOpenOrdersStepSamePage(ordersInfo, all, n, lim) ==
    IF ordersInfo.t # "array"
    THEN [returns |-> TRUE, value |-> Undefined, allOrders |-> all, pageNum |-> n]
    ELSE LET pushed == all \o ordersInfo.items
         IN  IF LessThanLimit(Len(pushed), lim)
             THEN [returns |-> FALSE, value |-> Undefined, allOrders |-> pushed,
                   pageNum |-> n]
             ELSE [returns |-> TRUE, value |-> Arr(pushed), allOrders |-> pushed,
                   pageNum |-> n]

\* the loop of getOpenOrders taking an empty page for the end of the data
getOpenOrdersStepStoppingAtEmpty(ordersInfo, all, n, lim) ==
    IF ordersInfo.t # "array"
    THEN [returns |-> TRUE, value |-> Undefined, allOrders |-> all, pageNum |-> n]
    ELSE LET pushed == all \o ordersInfo.items
         IN  IF LessThanLimit(Len(pushed), lim) /\ ordersInfo.items # <<>>
             THEN [returns |-> FALSE, value |-> Undefined, allOrders |-> pushed,
                   pageNum |-> n + 1]
             ELSE [returns |-> TRUE, value |-> Arr(pushed), allOrders |-> pushed,
                   pageNum |-> n + 1]

\* getOpenOrders after the await of line 417 (lines 419-426): the body of the loop and
\* its test, for the value ordersInfo of the page call
getOpenOrdersStep(ordersInfo, all, n, lim) ==
    IF ordersInfo.t # "array"
    THEN [returns |-> TRUE, value |-> Undefined, allOrders |-> all, pageNum |-> n]
    ELSE LET pushed == all \o ordersInfo.items
         IN  IF LessThanLimit(Len(pushed), lim)
             THEN [returns |-> FALSE, value |-> Undefined, allOrders |-> pushed,
                   pageNum |-> n + 1]
             ELSE [returns |-> TRUE, value |-> Arr(pushed), allOrders |-> pushed,
                   pageNum |-> n + 1]

\* the page call has returned pg.ret to its caller
PageReturned(pg) ==
    IF op = "getOpenOrdersPage"
    THEN /\ outcome' = pg.ret
         /\ page' = pg
         /\ UNCHANGED <<coinPair, limit, pageNum, allOrders, pageCalls, pageResults>>
    ELSE IF pg.ret = Rejected
    THEN \* await this.getOpenOrdersPage(...) throws inside getOpenOrders
         /\ outcome' = Rejected
         /\ page' = pg
         /\ UNCHANGED <<coinPair, limit, pageNum, allOrders, pageCalls, pageResults>>
    ELSE LET step == getOpenOrdersStep(pg.ret.v, allOrders, pageNum, limit)
         IN  /\ pageResults' = Append(pageResults, pg.ret.v)
             /\ allOrders' = step.allOrders
             /\ pageNum' = step.pageNum
             /\ UNCHANGED <<coinPair, limit>>
             /\ IF step.returns
                THEN /\ outcome' = Fulfilled(step.value)
                     /\ page' = pg
                     /\ UNCHANGED pageCalls
                ELSE /\ step.pageNum <= MaxPage
                     /\ outcome' = Pending
                     /\ page' = NewPage(coinPair, step.pageNum)
                     /\ pageCalls' = Append(pageCalls, step.pageNum)

PageStep(pg) ==
    IF pg.stage = "done" THEN PageReturned(pg)
    ELSE /\ page' = pg
         /\ UNCHANGED <<outcome, coinPair, limit, pageNum, allOrders, pageCalls,
                        pageResults>>

\* no operation of Part III is running
Idle == op = "none" \/ outcome # Pending

CallGetBalances ==
    /\ Idle
    /\ op' = "getBalances"
    /\ outcome' = Pending
    /\ nonzero' \in BOOLEAN
    /\ coinPair' = NoValue /\ limit' = NoValue /\ pageNum' = 0 /\ allOrders' = <<>>
    /\ page' = NoPage /\ pageCalls' = <<>> /\ pageResults' = <<>>
    /\ UNCHANGED <<cacheVars, pairVars>>

\* fameEXApiClient.getBalances() settles
SettleGetBalances ==
    /\ op = "getBalances" /\ outcome = Pending
    /\ \E resp \in BalancesResponses : outcome' = getBalancesResult(resp, nonzero)
    /\ UNCHANGED <<op, nonzero, coinPair, limit, pageNum, allOrders, page, pageCalls,
                   pageResults>>
    /\ UNCHANGED <<cacheVars, pairVars>>

CallGetOpenOrdersPage ==
    /\ Idle
    /\ op' = "getOpenOrdersPage"
    /\ outcome' = Pending
    /\ \E pair \in FormattedPairs, n \in {1, 2} :
          /\ page' = NewPage(pair, n)
          /\ pageCalls' = <<n>>
    /\ nonzero' = FALSE
    /\ coinPair' = NoValue /\ limit' = NoValue /\ pageNum' = 0 /\ allOrders' = <<>>
    /\ pageResults' = <<>>
    /\ UNCHANGED <<cacheVars, pairVars>>

\* getOpenOrders up to the await of line 409
CallGetOpenOrders ==
    /\ Idle
    /\ op' = "getOpenOrders"
    /\ \E pair \in OrderPairArgs :
          IF formatPairName(pair) = Threw
          THEN /\ outcome' = Rejected
               /\ coinPair' = NoValue /\ limit' = NoValue /\ pageNum' = 0
          ELSE /\ outcome' = Pending
               /\ coinPair' = formatPairName(pair) /\ limit' = Pending /\ pageNum' = 1
    /\ nonzero' = FALSE
    /\ allOrders' = <<>> /\ page' = NoPage /\ pageCalls' = <<>> /\ pageResults' = <<>>
    /\ UNCHANGED <<cacheVars, pairVars>>

\* getOpenOrders with a while loop: the total is tested before the first page call
SettleTotalWhileLoop ==
    /\ op = "getOpenOrders" /\ outcome = Pending /\ limit = Pending
    /\ \E resp \in TotalResponses :
          IF resp.t # "data"
          THEN /\ outcome' = Rejected
               /\ UNCHANGED <<limit, page, pageCalls>>
          ELSE IF ~LessThanLimit(0, resp.total)
          THEN /\ limit' = resp.total
               /\ outcome' = Fulfilled(Arr(<<>>))
               /\ UNCHANGED <<page, pageCalls>>
          ELSE /\ limit' = resp.total
               /\ page' = NewPage(coinPair, pageNum)
               /\ pageCalls' = <<pageNum>>
               /\ UNCHANGED outcome
    /\ UNCHANGED <<op, nonzero, coinPair, pageNum, allOrders, pageResults>>
    /\ UNCHANGED <<cacheVars, pairVars>>

\* the lookup of the vendor total settles (lines 409-417): limit is set and page 1 is
\* called
SettleTotal ==
    /\ op = "getOpenOrders" /\ outcome = Pending /\ limit = Pending
    /\ \E resp \in TotalResponses :
          IF resp.t # "data"
          THEN /\ outcome' = Rejected
               /\ UNCHANGED <<limit, page, pageCalls>>
          ELSE /\ limit' = resp.total
               /\ page' = NewPage(coinPair, pageNum)
               /\ pageCalls' = <<pageNum>>
               /\ UNCHANGED outcome
    /\ UNCHANGED <<op, nonzero, coinPair, pageNum, allOrders, pageResults>>
    /\ UNCHANGED <<cacheVars, pairVars>>

\* one of the four getOrders() calls settles
SettleListing ==
    /\ outcome = Pending /\ page.stage = "listing"
    /\ \E q \in page.waiting : \E resp \in ListingResponses(q) :
          PageStep([ListingSettled(page, q, resp) EXCEPT
                       !.upstreamFailed = @ \/ resp = Rejected])
    /\ UNCHANGED <<op, nonzero>>
    /\ UNCHANGED <<cacheVars, pairVars>>

\* the getTransactionDetails() call of one order settles
SettleDetails ==
    /\ outcome = Pending /\ page.stage = "details"
    /\ \E i \in page.waiting : \E resp \in DetailsResponses(page.orders[i]) :
          PageStep([DetailsSettled(page, i, resp) EXCEPT
                       !.upstreamFailed = @ \/ resp = Rejected,
                       !.noTrade = @ \/ resp = [t |-> "data", trades |-> <<>>]])
    /\ UNCHANGED <<op, nonzero>>
    /\ UNCHANGED <<cacheVars, pairVars>>

(***************************************************************************)
(* Part IV.  formatPairName applied to the spellings of a pair.            *)
(*                                                                         *)
(* The argument is any string of up to MaxLen characters (or undefined).   *)
(* A respelling changes the case of one letter or replaces one separator  *)
(* by another; two strings differ only in case and in the separators      *)
(* exactly when a chain of respellings leads from one to the other.        *)
(***************************************************************************)
PairChars == {"b", "B", "u", "U", "-", "_", "/"}
PairStrings == UNION {[1..n -> PairChars] : n \in 0..MaxLen}
PairInputs == {Undefined} \cup {Str(s) : s \in PairStrings}

SwapCase(c) ==
    CASE c = "b" -> "B"
      [] c = "B" -> "b"
      [] c = "u" -> "U"
      [] c = "U" -> "u"
      [] OTHER -> c

\* the characters that may stand for c in another spelling of the same pair
Respellings(c) ==
    IF IsSeparator(c) THEN {"-", "_", "/"} \ {c} ELSE {SwapCase(c)} \ {c}

\* formatPairName(rawPair)
CallFormatPairName ==
    /\ canonical = NoValue
    /\ canonical' = formatPairName(rawPair)
    /\ UNCHANGED <<rawPair, respelledFrom, renormalized>>
    /\ UNCHANGED <<cacheVars, orderVars>>

\* formatPairName of another spelling of rawPair
Respell ==
    /\ canonical.t = "pair"
    /\ \E i \in 1..Len(rawPair.s) : \E c \in Respellings(rawPair.s[i]) :
          /\ rawPair' = Str([rawPair.s EXCEPT ![i] = c])
          /\ canonical' = formatPairName(Str([rawPair.s EXCEPT ![i] = c]))
    /\ respelledFrom' = canonical
    /\ renormalized' = NoValue
    /\ UNCHANGED <<cacheVars, orderVars>>

\* formatPairName(formatPairName(rawPair).pairReadable)
Renormalize ==
    /\ canonical.t = "pair"
    /\ renormalized = NoValue
    /\ renormalized' = formatPairName(Str(canonical.pairReadable))
    /\ UNCHANGED <<rawPair, canonical, respelledFrom>>
    /\ UNCHANGED <<cacheVars, orderVars>>

\* the state after module.exports(...) (lines 46-61): with loadMarket, getCurrencies()
\* and getMarkets() have been called and nobody awaits their promises
InitCache(loadMarket) ==
    /\ exchangeCurrencies = Undefined
    /\ exchangeMarkets = Undefined
    /\ microtasks = <<>>
    /\ lastCall = NoCall
    /\ lastResolved = NoValue
    /\ IF loadMarket
       THEN /\ gettingCurrencies = TRUE
            /\ gettingMarkets = TRUE
            /\ nrefresh = 2
            /\ refresh = [r \in Rids |->
                            IF r = 1 THEN NewRefresh("currencies", FALSE)
                            ELSE IF r = 2 THEN NewRefresh("markets", FALSE)
                            ELSE NoRefresh]
            /\ calls = [currencies |-> 1, currenciesWithNetwork |-> 1, markets |-> 1]
       ELSE /\ gettingCurrencies = FALSE
            /\ gettingMarkets = FALSE
            /\ nrefresh = 0
            /\ refresh = [r \in Rids |-> NoRefresh]
            /\ calls = [currencies |-> 0, currenciesWithNetwork |-> 0, markets |-> 0]

\* no operation of Part III has been called yet
InitOrders ==
    /\ op = "none" /\ outcome = Pending /\ nonzero = FALSE
    /\ coinPair = NoValue /\ limit = NoValue /\ pageNum = 0 /\ allOrders = <<>>
    /\ page = NoPage /\ pageCalls = <<>> /\ pageResults = <<>>

\* formatPairName has not been called
NoPairCall ==
    /\ rawPair = NoValue /\ canonical = NoValue
    /\ respelledFrom = NoValue /\ renormalized = NoValue

\* formatPairName is about to be called with any argument
InitPair ==
    /\ rawPair \in PairInputs /\ canonical = NoValue
    /\ respelledFrom = NoValue /\ renormalized = NoValue

Init == (\E loadMarket \in BOOLEAN : InitCache(loadMarket)) /\ InitOrders /\ NoPairCall

\* the trader built with loadMarket = false: the cache takes no part
InitNoLoad == InitCache(FALSE) /\ InitOrders /\ NoPairCall

\* the trader built with the default loadMarket = true
InitLoaded == InitCache(TRUE) /\ InitOrders /\ NoPairCall

InitPairCodec == InitCache(FALSE) /\ InitOrders /\ InitPair

NextCache ==
    \/ CallGetCurrencies
    \/ CallCurrencyInfo
    \/ CallGetMarkets
    \/ CallMarketInfo
    \/ SettleCurrencies
    \/ SettleCurrenciesWithNetwork
    \/ SettleMarkets
    \/ RunThen
    \/ RunCatch
    \/ RunFinally
    \/ RunContinuation

NextOrders ==
    \/ CallGetBalances
    \/ SettleGetBalances
    \/ CallGetOpenOrdersPage
    \/ CallGetOpenOrders
    \/ SettleTotal
    \/ SettleListing
    \/ SettleDetails

NextPair ==
    \/ CallFormatPairName
    \/ Respell
    \/ Renormalize

\* the cache and its callers
SpecCache == Init /\ [][NextCache]_vars

\* RunThen is enabled
ThenQueued == microtasks # <<>> /\ Head(microtasks).job = "then"

\* the cache of a trader built by default, under the scheduling of the event loop:
\* a queued job is run (the answers of the exchange may stay away for ever).  The
\* last conjunct is WF_vars(RunThen) written out, with ThenQueued for
\* ENABLED <<RunThen>>_vars
SpecCacheFair ==
    /\ InitLoaded /\ [][NextCache]_vars
    /\ WF_vars(RunCatch) /\ WF_vars(RunFinally) /\ WF_vars(RunContinuation)
    /\ ([]<>(~ThenQueued) \/ []<><<RunThen>>_vars)

\* the balance and order operations
SpecOrders == InitNoLoad /\ [][NextOrders]_vars

\* formatPairName alone
SpecPair == InitPairCodec /\ [][NextPair]_vars

(***************************************************************************)
(* The claims.                                                             *)
(***************************************************************************)
Catalogs == {"currencies", "markets"}

\* the latest step was a call of fn
Called(fn) == lastCall.fn = fn

\* ... and it invoked currencies() and currenciesWithNetwork() once each
FetchedCurrencies ==
    /\ calls.currencies = lastCall.calls.currencies + 1
    /\ calls.currenciesWithNetwork = lastCall.calls.currenciesWithNetwork + 1

\* ... and it invoked no method of the ExchangeApiClient
FetchedNothing == calls = lastCall.calls

\* C1: for each catalog at most one refresh has its upstream fetch in flight.
C1_SingleFlight == \A cat \in Catalogs : Cardinality(InFlight(cat)) <= 1

\* C2: a getCurrencies / getMarkets call made while a refresh of its catalog is in
\* flight returns undefined at once and issues no upstream fetch (so the flag and
\* the count of fetches stay as they are), whatever its arguments.
C2_CallDuringRefreshIsNoOp ==
    (lastCall.fn # "none" /\ lastCall.inflight > 0)
        => (lastCall.ret = Undefined /\ FetchedNothing)

\* C3: with a populated currency snapshot, no refresh in flight (flag clear) and
\* forceUpdate = false, getCurrencies fetches nothing and returns the entry of coin
\* when coin is given and the snapshot mapping itself when coin is omitted.
C3_CacheHitReturnsSnapshot ==
    (/\ Called("getCurrencies")
     /\ lastCall.snapshot.t = "map"
     /\ lastCall.inflight = 0 /\ ~lastCall.getting
     /\ ~lastCall.forceUpdate)
        => /\ FetchedNothing
           /\ lastCall.ret = IF lastCall.arg = Undefined THEN lastCall.snapshot
                             ELSE GetProp(lastCall.snapshot.m, lastCall.arg)

\* C4 as stated: getCurrencies(coin, true) issues a fresh upstream fetch in every
\* state it is called in.
C4_ForceAlwaysFetches ==
    (Called("getCurrencies") /\ lastCall.forceUpdate) => FetchedCurrencies

\* C4 as amended: getCurrencies(coin, true) issues a fresh upstream fetch, also when
\* a populated snapshot exists, exactly when gettingCurrencies is not set; when it
\* is set the call fetches nothing and returns undefined.
C4_ForceFetchesUnlessGetting ==
    (Called("getCurrencies") /\ lastCall.forceUpdate)
        => IF lastCall.getting
           THEN FetchedNothing /\ lastCall.ret = Undefined
           ELSE FetchedCurrencies /\ lastCall.ret.t = "promise" /\ gettingCurrencies

C4_Witness ==
    /\ Called("getCurrencies") /\ lastCall.forceUpdate
    /\ lastCall.snapshot.t = "map" /\ ~lastCall.getting
    /\ FetchedCurrencies

\* the refresh failed: an upstream call was rejected or its payload has not the
\* expected shape
RefreshFailed(rec) == rec.a \in {Rejected, Malformed} \/ rec.b \in {Rejected, Malformed}

\* the callbacks of .then() and .catch() of refresh r have run: .finally() is next
BeforeFinally(r) ==
    /\ microtasks # <<>>
    /\ Head(microtasks).job = "finally"
    /\ Head(microtasks).rid = r

\* C5: a refresh of either catalog that fails (upstream rejected, payload not
\* processable) resolves the returned promise to undefined, and to nothing else at
\* any moment; the promise is never rejected.
C5_FailureResolvesUndefined ==
    \A r \in Rids :
        refresh[r].stage \in {"fetching", "settled"} =>
            /\ refresh[r].promise # Rejected
            /\ RefreshFailed(refresh[r]) =>
                  /\ refresh[r].promise \in {Pending, Fulfilled(Undefined)}
                  /\ BeforeFinally(r) => refresh[r].promise = Fulfilled(Undefined)

C5_Witness ==
    \E r \in Rids :
        /\ refresh[r].stage = "settled" /\ BeforeFinally(r)
        /\ refresh[r].a = Malformed
        /\ refresh[r].promise = Fulfilled(Undefined)

\* C6: getBalances, getOpenOrdersPage and getOpenOrders (called with a well-formed
\* pair) never reject, whatever the upstream calls answer.
C6_NeverRejects ==
    outcome = Rejected => (op = "getOpenOrders" /\ coinPair = NoValue)

\* the group (1 uncompleted-buy .. 4 completed-sell) and the rank of an order of the
\* vendor, which lists each group by descending rank
GroupOf(order) == order.orderId \div 10
RankOf(order) == order.orderId % 10

PageIsArray == page.stage = "done" /\ page.ret.t = "fulfilled" /\ page.ret.v.t = "array"

\* C7: a page is returned in the order uncompleted-buy, uncompleted-sell,
\* completed-buy, completed-sell, each group in the order of the vendor, one record
\* per listed order at the position of that order and with the price of its own
\* lookup, in whatever order the queries and lookups completed.
C7_PageOrder ==
    PageIsArray =>
        LET items == page.ret.v.items
        IN  /\ Len(items) = Len(page.orders)
            /\ \A i \in 1..Len(items) :
                  /\ items[i].orderId = page.orders[i].orderId
                  /\ items[i].price = 100 + page.orders[i].orderId
                  /\ items[i].side = IF GroupOf(items[i]) \in {1, 3} THEN "buy" ELSE "sell"
            /\ \A i, j \in 1..Len(items) :
                  i < j => \/ GroupOf(items[i]) < GroupOf(items[j])
                           \/ /\ GroupOf(items[i]) = GroupOf(items[j])
                              /\ RankOf(items[i]) > RankOf(items[j])

C7_Witness ==
    /\ PageIsArray
    /\ Len(page.ret.v.items) >= 4
    /\ \E i, j \in 1..Len(page.ret.v.items) :
          /\ GroupOf(page.ret.v.items[i]) = 2 /\ GroupOf(page.ret.v.items[j]) = 3
          /\ i + 1 < j

\* C8: no partial page: when a listing query or a lookup of the page was rejected
\* the page is undefined, and a page that is an array holds a record for every
\* order the four queries listed.
C8_NoPartialPage ==
    page.stage = "done" =>
        /\ page.upstreamFailed => page.ret = Fulfilled(Undefined)
        /\ PageIsArray =>
              /\ ~page.upstreamFailed
              /\ \A q \in Queries : page.ordersData[q].t = "data"
              /\ Len(page.ret.v.items) =
                    Len(page.ordersData[1].orders) + Len(page.ordersData[2].orders)
                    + Len(page.ordersData[3].orders) + Len(page.ordersData[4].orders)

C8_Witness ==
    /\ page.stage = "done" /\ page.upstreamFailed
    /\ Len(page.orders) >= 2
    /\ page.ret = Fulfilled(Undefined)

RECURSIVE ConcatPages(_)
ConcatPages(ps) == IF ps = <<>> THEN <<>> ELSE Head(ps).items \o ConcatPages(Tail(ps))

\* the number of orders of the first j pages
SizeOfPages(ps, j) == Len(ConcatPages(SubSeq(ps, 1, j)))

\* C9: when no page call fails and the vendor total is a number, getOpenOrders
\* calls pages 1..k for the smallest k >= 1 whose pages 1..k hold at least total
\* orders, and returns the concatenation of these k pages, every record of them.
C9_PagesUntilTotal ==
    (/\ op = "getOpenOrders" /\ limit.t = "num"
     /\ outcome.t = "fulfilled" /\ outcome.v.t = "array")
        => LET k == Len(pageResults)
           IN  /\ k >= 1
               /\ pageCalls = [i \in 1..k |-> i]
               /\ outcome.v.items = ConcatPages(pageResults)
               /\ SizeOfPages(pageResults, k) >= limit.n
               /\ \A j \in 1..(k - 1) : SizeOfPages(pageResults, j) < limit.n

\* total 2 with 1 order on page 1 and 2 or more on page 2: two page calls, every
\* record returned (more than total), the same order twice
C9_Witness ==
    /\ op = "getOpenOrders" /\ limit = Num(2)
    /\ outcome.t = "fulfilled" /\ outcome.v.t = "array"
    /\ pageCalls = <<1, 2>>
    /\ Len(outcome.v.items) > 2
    /\ \E i, j \in 1..Len(outcome.v.items) :
          i < j /\ outcome.v.items[i].orderId = outcome.v.items[j].orderId

\* C10: when a page call of getOpenOrders resolves to undefined, getOpenOrders
\* resolves to undefined at once: that page call is the last one and the orders of
\* the earlier pages are not returned.
C10_FailedPageEndsLoop ==
    (op = "getOpenOrders" /\ \E j \in 1..Len(pageResults) : pageResults[j] = Undefined)
        => /\ outcome = Fulfilled(Undefined)
           /\ pageResults[Len(pageResults)] = Undefined
           /\ Len(pageCalls) = Len(pageResults)
           /\ page.stage = "done"

C10_Witness ==
    /\ op = "getOpenOrders" /\ outcome = Fulfilled(Undefined)
    /\ Len(pageResults) >= 2 /\ pageResults[Len(pageResults)] = Undefined
    /\ allOrders # <<>>

\* the pieces the argument splits into
Pieces == split(rawPair.s)

\* C11: two pair strings that differ only in letter case and in which of '-', '_',
\* '/' separates the tokens give the same record {pair, pairReadable, pairPlain,
\* coin1, coin2}; and formatPairName of the pairReadable of a result gives that
\* result again, for every string of two (or more) pieces.
C11_SpellingsNormalizeAlike ==
    /\ respelledFrom # NoValue => canonical = respelledFrom
    /\ (renormalized # NoValue /\ Len(Pieces) >= 2) => renormalized = canonical

C11_Witness ==
    /\ rawPair = Str(<<"b", "-", "u">>)
    /\ canonical.t = "pair"
    /\ canonical.pairReadable = <<"B", "/", "U">>
    /\ canonical.pairPlain = <<"B", "_", "U">>
    /\ canonical.coin1 = Str(<<"B">>) /\ canonical.coin2 = Str(<<"U">>)
    /\ respelledFrom = canonical
    /\ renormalized = canonical

\* C12: formatPairName fails (throws) whenever its string does not split on '-',
\* '_', '/' into exactly two pieces; it returns no record for such a string.
C12_MalformedPairFails ==
    (canonical # NoValue /\ rawPair.t = "str" /\ Len(Pieces) # 2) => canonical = Threw

\* the non-empty results that the answers to one refresh can give
WholeCurrencies ==
    {currenciesResult(a, b) :
        <<a, b>> \in UNION {CurrenciesResponses(r) \X NetworksResponses(r) : r \in Rids}}
    \ {Threw, ObjMap(<<>>)}
WholeMarkets ==
    {marketsResult(a) : a \in UNION {MarketsResponses(r) : r \in Rids}}
    \ {Threw, ObjMap(<<>>)}

\* C13: a snapshot is replaced wholesale only: the currency (market) snapshot is
\* unset or is the complete result built from the answers to one refresh, never a
\* mix of two refreshes or a part of one; what a cache hit hands out is an entry of
\* such a snapshot.
C13_SnapshotWholesale ==
    /\ exchangeCurrencies = Undefined \/ exchangeCurrencies \in WholeCurrencies
    /\ exchangeMarkets = Undefined \/ exchangeMarkets \in WholeMarkets
    /\ (lastCall.fn # "none" /\ lastCall.ret.t = "entry") =>
          /\ lastCall.snapshot \in WholeCurrencies \cup WholeMarkets
          /\ \E key \in DOMAIN lastCall.snapshot.m :
                lastCall.ret.e = lastCall.snapshot.m[key]

\* a populated snapshot while a later refresh is under way, one of its two answers
\* (listing other currencies) already there
C13_Witness ==
    /\ exchangeCurrencies \in WholeCurrencies
    /\ \E r \in InFlight("currencies") :
          /\ refresh[r].a.t = "data" /\ refresh[r].b = Pending
          /\ {toUpperCase(n) : n \in refresh[r].a.names} # DOMAIN exchangeCurrencies.m
          /\ \A sym \in DOMAIN exchangeCurrencies.m :
                exchangeCurrencies.m[sym].minWithdraw < r

\* the upstream calls of some refresh of the catalog have settled and its chain is
\* not finished
UpstreamHasSettled(cat) ==
    \E r \in Rids : refresh[r].stage = "settled" /\ refresh[r].cat = cat

\* C14: whenever the upstream calls of a refresh have settled (with a result, an
\* empty result, a payload that cannot be processed or a rejection), the in-flight
\* flag of its catalog becomes false afterwards.
C14_FlagEventuallyCleared ==
    /\ UpstreamHasSettled("currencies") ~> ~gettingCurrencies
    /\ UpstreamHasSettled("markets") ~> ~gettingMarkets

\* a failed refresh whose flag is still set when only .finally() is left to run
C14_Witness ==
    \E r \in Rids :
        /\ BeforeFinally(r) /\ refresh[r].stage = "settled"
        /\ refresh[r].cat = "currencies" /\ RefreshFailed(refresh[r])
        /\ refresh[r].promise = Fulfilled(Undefined)
        /\ gettingCurrencies

\* a getOpenOrders call that got past formatPairName is running or has ended
InGetOpenOrders == op = "getOpenOrders" /\ coinPair # NoValue

\* the page calls made so far are 1..k, nothing is asked of a page before the total
\* is there, every page before the k-th has completed with an array, and the result
\* of the k-th is there only when that page is done
PagesOneByOne ==
    LET k == Len(pageCalls)
    IN  /\ pageCalls = [i \in 1..k |-> i]
        /\ limit = Pending => (k = 0 /\ page = NoPage)
        /\ k >= 1 =>
              /\ limit # Pending
              /\ page.pageNum = k
              /\ Len(pageResults) \in {k - 1, k}
              /\ \A j \in 1..(k - 1) : pageResults[j].t = "array"
              /\ Len(pageResults) = k => (page.stage = "done" /\ page.waiting = {})
              /\ page.stage \in {"listing", "details"} =>
                    (Len(pageResults) = k - 1 /\ outcome = Pending)

\* C15: getOpenOrders reads the vendor total once, before any page call, and then
\* calls the pages 1, 2, 3, ... one after another, each once: page N+1 is called in
\* the step in which the last pending upstream call of page N settles, not before.
C15_PagesInSequence ==
    [][(InGetOpenOrders /\ InGetOpenOrders') =>
          /\ PagesOneByOne'
          /\ (limit \notin {Pending, NoValue} /\ limit' \notin {Pending, NoValue})
                => limit' = limit
          /\ (Len(pageCalls) >= 1 /\ Len(pageCalls') > Len(pageCalls)) =>
                /\ pageCalls' = Append(pageCalls, Len(pageCalls) + 1)
                /\ page.stage \in {"listing", "details"}
                /\ Cardinality(page.waiting) = 1
                /\ Len(pageResults') = Len(pageCalls)
                /\ page' = NewPage(coinPair, Len(pageCalls) + 1)]_vars

\* the third page is waiting for its lookups while pages 1 and 2 are complete
C15_Witness ==
    /\ InGetOpenOrders /\ outcome = Pending
    /\ pageCalls = <<1, 2, 3>>
    /\ Len(pageResults) = 2
    /\ page.pageNum = 3 /\ page.stage = "details" /\ Cardinality(page.waiting) >= 2

\* C16: nothing bounds the number of page calls: while every page so far was a
\* successful page without orders and the vendor total is above 0, getOpenOrders
\* has not resolved, and (unless the page call under way rejected) it has called the
\* next page number, however many empty pages came before; the loop would go on
\* in the same way after an empty page MaxPage + 1, where the model stops following.
C16_EmptyPagesNeverEnd ==
    (/\ InGetOpenOrders /\ limit.t = "num" /\ limit.n > 0
     /\ Len(pageResults) >= 1
     /\ \A j \in 1..Len(pageResults) : pageResults[j] = Arr(<<>>))
        => /\ outcome.t # "fulfilled"
           /\ allOrders = <<>>
           /\ pageCalls = [i \in 1..(Len(pageResults) + 1) |-> i]
           /\ page.pageNum = Len(pageResults) + 1
           /\ outcome = Pending <=> page.stage \in {"listing", "details"}
           /\ outcome = Rejected <=> (page.stage = "done" /\ page.ret = Rejected)
           /\ LET step == getOpenOrdersStep(Arr(<<>>), allOrders, MaxPage + 1, limit)
              IN  ~step.returns /\ step.pageNum = MaxPage + 2

C16_Witness ==
    /\ InGetOpenOrders /\ limit = Num(1) /\ outcome = Pending
    /\ pageResults = [i \in 1..(MaxPage - 1) |-> Arr(<<>>)]
    /\ pageCalls = [i \in 1..MaxPage |-> i]
    /\ page.pageNum = MaxPage /\ page.stage = "listing"

Max(a, b) == IF a >= b THEN a ELSE b

\* every page that came back as an array holds at least one order
NoEmptyPage ==
    \A j \in 1..Len(pageResults) :
        pageResults[j].t = "array" => pageResults[j].items # <<>>

\* C17: with a numeric vendor total and no successful page without orders,
\* getOpenOrders makes at least one page call (also for total 0) and at most
\* max(1, total); it is pending only while an upstream call of the page under way
\* has not settled, and it has resolved once the result of its last page is there.
C17_AtMostTotalPages ==
    (InGetOpenOrders /\ limit.t = "num" /\ NoEmptyPage)
        => /\ Len(pageCalls) >= 1
           /\ Len(pageCalls) <= Max(1, limit.n)
           /\ outcome = Pending =>
                 (page.stage \in {"listing", "details"} /\ page.waiting # {})
           /\ Len(pageResults) = Len(pageCalls) => outcome.t = "fulfilled"
           /\ Len(pageResults) >= Max(1, limit.n) => outcome.t = "fulfilled"

\* total MaxTotal reached with one order per page: MaxTotal page calls
C17_Witness ==
    /\ InGetOpenOrders /\ limit = Num(MaxTotal)
    /\ Len(pageCalls) = MaxTotal
    /\ Len(pageResults) = MaxTotal
    /\ \A j \in 1..Len(pageResults) :
          pageResults[j].t = "array" /\ Len(pageResults[j].items) = 1
    /\ outcome.t = "fulfilled" /\ outcome.v.t = "array"
    /\ Len(outcome.v.items) = MaxTotal

\* what the answers to a refresh give: a mapping, or Threw for a refresh that failed
ResultOf(rec) ==
    IF rec.cat = "currencies" THEN currenciesResult(rec.a, rec.b) ELSE marketsResult(rec.a)

\* the job that is run next belongs to the chain of refresh r
ChainRuns(r) ==
    /\ microtasks # <<>>
    /\ Head(microtasks).rid = r
    /\ Head(microtasks).job \in {"then", "catch", "finally"}
    /\ refresh[r].stage = "settled"

Populated(snapshot) == snapshot.t = "map" /\ DOMAIN snapshot.m # {}

\* C18: no job of the chain of a refresh that failed or gave an empty result changes
\* the snapshot of its catalog; an empty result resolves the promise to the empty
\* mapping; and a snapshot that is populated stays populated in every step.
C18_FailedRefreshKeepsSnapshot ==
    [][/\ exchangeCurrencies.t = "map" => Populated(exchangeCurrencies')
       /\ exchangeMarkets.t = "map" => Populated(exchangeMarkets')
       /\ \A r \in Rids :
             (ChainRuns(r) /\ ResultOf(refresh[r]) \in {Threw, ObjMap(<<>>)}) =>
                /\ refresh[r].cat = "currencies" => exchangeCurrencies' = exchangeCurrencies
                /\ refresh[r].cat = "markets" => exchangeMarkets' = exchangeMarkets
                /\ (Head(microtasks).job = "then" /\ ~Head(microtasks).rejected) =>
                      refresh'[r].promise =
                          IF ResultOf(refresh[r]) = Threw THEN Fulfilled(Undefined)
                          ELSE Fulfilled(ObjMap(<<>>))]_vars

\* a forced refresh that listed no currency has resolved to the empty mapping and
\* the snapshot is still there
C18_Witness ==
    \E r \in Rids :
        /\ BeforeFinally(r) /\ refresh[r].stage = "settled"
        /\ refresh[r].cat = "currencies"
        /\ ResultOf(refresh[r]) = ObjMap(<<>>)
        /\ refresh[r].promise = Fulfilled(ObjMap(<<>>))
        /\ Populated(exchangeCurrencies)

\* C19: once the market snapshot is populated, no step issues a markets() fetch or
\* sets gettingMarkets, and a getMarkets / marketInfo call, whatever its argument,
\* leaves the snapshot as it is and returns an entry of it or undefined at once.
C19_NoMarketsRefetch ==
    [][exchangeMarkets.t = "map" =>
          /\ calls'.markets = calls.markets
          /\ gettingMarkets' => gettingMarkets
          /\ lastCall'.fn = "getMarkets" =>
                /\ exchangeMarkets' = exchangeMarkets
                /\ lastCall'.ret \in
                      {Undefined} \cup {Entry(exchangeMarkets.m[key]) :
                                           key \in DOMAIN exchangeMarkets.m}]_vars

\* marketInfo served from the snapshot, without a fetch
C19_Witness ==
    /\ lastCall.fn = "getMarkets" /\ lastCall.via = "marketInfo"
    /\ lastCall.snapshot.t = "map" /\ exchangeMarkets = lastCall.snapshot
    /\ lastCall.ret.t = "entry"
    /\ FetchedNothing /\ ~gettingMarkets
    /\ calls.markets >= 1

\* C20: a page on which the lookup of some order answered without a trade resolves
\* to undefined; so a page that is an array has the price of a trade for every
\* order, and such an order on any page makes getOpenOrders resolve to undefined.
C20_NoTradeFailsPage ==
    /\ (page.stage = "done" /\ page.noTrade) =>
          /\ page.ret = Fulfilled(Undefined)
          /\ InGetOpenOrders =>
                /\ outcome = Fulfilled(Undefined)
                /\ pageResults[Len(pageResults)] = Undefined
    /\ PageIsArray =>
          /\ ~page.noTrade
          /\ \A i \in 1..Len(page.ret.v.items) :
                page.ret.v.items[i].price = 100 + page.orders[i].orderId

\* the second page has an order without a trade: the orders of the first page are
\* not returned
C20_Witness ==
    /\ InGetOpenOrders /\ page.stage = "done"
    /\ page.noTrade /\ ~page.upstreamFailed
    /\ page.pageNum = 2 /\ Len(page.orders) >= 2
    /\ allOrders # <<>>
    /\ outcome = Fulfilled(Undefined)

====
